---- MODULE Spec2Model ----
(***************************************************************************)
(* A model of DFA.c: the dfa struct and the operations createDFA, indexOf, *)
(* addTransition and checkString.  Strings are sequences of one-character  *)
(* strings; C arrays are functions over 0 .. n-1.                          *)
(***************************************************************************)
EXTENDS Integers, Sequences, FiniteSets, TLC

\* ------------------------------------------------------------------ bounds
MaxLen == 2         \* input strings have at most MaxLen characters
MaxAdds == 2        \* addTransition decrements incompleteCells at most MaxAdds times

\* ------------------------------------------------------- program constants
ERROR_INCOMPLETE_TABLE == -22
ERROR_INVALID_CHARACTER_IN_INPUT == -20

\* Memory outside the table: unmapped (an access kills the process), or mapped
\* and holding some value.
Unmapped == [mapped |-> FALSE, value |-> 0]
Mapped(v) == [mapped |-> TRUE, value |-> v]

\* ------------------------------------------------------------ input domains
\* The tables createDFA is asked for: <<number of states, alphabet>>.
Shapes == { <<1, <<"a">>>>, <<2, <<"a">>>>, <<1, <<"a", "b">>>> }
\* A character that is in no alphabet.
Foreign == "c"
\* State arguments for a DFA of nStates states: the valid ones and one beyond.
StateArgs(nStates) == 0 .. nStates
\* Lists of final states: none, one, and two with the match in second place.
FinalLists(nStates) == { <<>>, <<0>>, <<nStates - 1, 0>> }
RECURSIVE StringsUpTo(_, _)
StringsUpTo(n, chars) ==
  IF n = 0 THEN { <<>> }
  ELSE LET shorter == StringsUpTo(n - 1, chars)
       IN  shorter \cup { Append(s, c) : s \in { t \in shorter : Len(t) = n - 1 },
                                         c \in chars }

VARIABLES
  dfa,      \* the DFA struct and the storage it owns
  beyond,   \* what an access outside the transition table finds
  written,  \* history: per cell, the targets addTransition stored in it, in order
  last,     \* history: the last call, its arguments and what it returned
  outside,  \* history: some call accessed memory outside the table
  crashed,  \* the process was killed by an access outside its memory
  failed,   \* the allocation of createDFA that returned NULL, if one did
  evals     \* per caller, the checkString call it is inside and how far that got

vars == <<dfa, beyond, written, last, outside, crashed, failed, evals>>

\* --------------------------------------------------------------- operations

\* createDFA counting one unset cell per state.
createDFACountsStates(chars, nStates, initState, nFinStates, finStates, junk) ==
  [ states |-> nStates,
    initialState |-> initState,
    numberOfFinalStates |-> nFinStates,
    finalStates |-> [k \in 0 .. nFinStates - 1 |-> finStates[k + 1]],
    characters |-> Len(chars),
    characterSet |-> [k \in 0 .. Len(chars) - 1 |-> chars[k + 1]],
    transitionTable |-> [s \in 0 .. nStates - 1 |-> [k \in 0 .. Len(chars) - 1 |-> junk]],
    incompleteCells |-> nStates ]

\* createDFA: the struct after construction.  The rows of the table come from
\* malloc, so their cells hold an arbitrary value, here junk.
createDFA(chars, nStates, initState, nFinStates, finStates, junk) ==
  [ states |-> nStates,
    initialState |-> initState,
    numberOfFinalStates |-> nFinStates,
    finalStates |-> [k \in 0 .. nFinStates - 1 |-> finStates[k + 1]],
    characters |-> Len(chars),
    characterSet |-> [k \in 0 .. Len(chars) - 1 |-> chars[k + 1]],
    transitionTable |-> [s \in 0 .. nStates - 1 |-> [k \in 0 .. Len(chars) - 1 |-> junk]],
    incompleteCells |-> nStates * Len(chars) ]

\* indexOf: linear search from position i on.
RECURSIVE indexFrom(_, _, _)
indexFrom(d, c, i) ==
  IF i < d.characters
  THEN IF c = d.characterSet[i] THEN i ELSE indexFrom(d, c, i + 1)
  ELSE -1

indexOf(d, c) == indexFrom(d, c, 0)

\* The rows createDFA allocated.
InTable(d, state) == state \in 0 .. d.states - 1

\* addTransition counting a cell only when the store changes what it holds.
addTransitionCountsChanges(d, initState, inp, finalState) ==
  LET index == indexOf(d, inp)
  IN  IF index < 0 THEN d
      ELSE [d EXCEPT !.transitionTable[initState][index] = finalState,
                     !.incompleteCells =
                       IF d.transitionTable[initState][index] = finalState
                       THEN @ ELSE @ - 1]

\* addTransition storing the row where the target belongs.
addTransitionStoresRow(d, initState, inp, finalState) ==
  LET index == indexOf(d, inp)
  IN  IF index < 0 THEN d
      ELSE [d EXCEPT !.transitionTable[initState][index] = initState,
                     !.incompleteCells = @ - 1]

\* addTransition counting the call before it looks the character up.
addTransitionCountsFirst(d, initState, inp, finalState) ==
  LET index == indexOf(d, inp)
  IN  IF index < 0 THEN [d EXCEPT !.incompleteCells = @ - 1]
      ELSE [d EXCEPT !.transitionTable[initState][index] = finalState,
                     !.incompleteCells = @ - 1]

\* addTransition with initState a row of the table.
addTransition(d, initState, inp, finalState) ==
  LET index == indexOf(d, inp)
  IN  IF index < 0 THEN d
      ELSE [d EXCEPT !.transitionTable[initState][index] = finalState,
                     !.incompleteCells = @ - 1]

\* The search of the list of final states that skips the entry at i.
RECURSIVE finalFromSkipsOne(_, _, _)
finalFromSkipsOne(d, state, i) ==
  IF i + 1 < d.numberOfFinalStates
  THEN IF state = d.finalStates[i + 1] THEN 1 ELSE finalFromSkipsOne(d, state, i + 1)
  ELSE 0

\* The search of the list of final states, from position i on.
RECURSIVE finalFrom(_, _, _)
finalFrom(d, state, i) ==
  IF i < d.numberOfFinalStates
  THEN IF state = d.finalStates[i] THEN 1 ELSE finalFrom(d, state, i + 1)
  ELSE 0

\* The loop of checkString that notes a foreign character and reads on to the
\* end of the input before it reports it.
RECURSIVE checkFromScansAll(_, _, _, _, _, _)
checkFromScansAll(d, mem, inp, i, state, reads) ==
  IF i < Len(inp)
  THEN LET index == indexOf(d, inp[i + 1])
       IN  IF index < 0
           THEN [checkFromScansAll(d, mem, SubSeq(inp, 1, i) \o SubSeq(inp, i + 2, Len(inp)),
                                   i, state, reads)
                   EXCEPT !.ret = ERROR_INVALID_CHARACTER_IN_INPUT,
                          !.looked = Len(inp)]
           ELSE IF InTable(d, state)
           THEN checkFromScansAll(d, mem, inp, i + 1, d.transitionTable[state][index],
                                  Append(reads, <<state, index>>))
           ELSE IF ~mem.mapped
           THEN [ret |-> 0, killed |-> TRUE, looked |-> i + 1,
                 reads |-> Append(reads, <<state, index>>), state |-> state, dfa |-> d]
           ELSE checkFromScansAll(d, mem, inp, i + 1, mem.value,
                                  Append(reads, <<state, index>>))
  ELSE [ret |-> finalFrom(d, state, 0), killed |-> FALSE, looked |-> i,
        reads |-> reads, state |-> state, dfa |-> d]

\* The loop of checkString from position i on, in state `state`.  reads are
\* the cells <<state, index>> looked up so far, looked is the number of input
\* characters examined, dfa is the struct as the call leaves it.
RECURSIVE checkFrom(_, _, _, _, _, _)
checkFrom(d, mem, inp, i, state, reads) ==
  IF i < Len(inp)
  THEN LET index == indexOf(d, inp[i + 1])
       IN  IF index < 0
           THEN [ret |-> ERROR_INVALID_CHARACTER_IN_INPUT, killed |-> FALSE,
                 looked |-> i + 1, reads |-> reads, state |-> state, dfa |-> d]
           ELSE IF InTable(d, state)
           THEN checkFrom(d, mem, inp, i + 1, d.transitionTable[state][index],
                          Append(reads, <<state, index>>))
           ELSE IF ~mem.mapped
           THEN [ret |-> 0, killed |-> TRUE, looked |-> i + 1,
                 reads |-> Append(reads, <<state, index>>), state |-> state, dfa |-> d]
           ELSE checkFrom(d, mem, inp, i + 1, mem.value,
                          Append(reads, <<state, index>>))
  ELSE [ret |-> finalFrom(d, state, 0), killed |-> FALSE, looked |-> i,
        reads |-> reads, state |-> state, dfa |-> d]

\* checkString that takes a table for complete unless cells are counted missing.
checkStringWhileMissing(d, mem, inp) ==
  IF d.incompleteCells > 0
  THEN [ret |-> ERROR_INCOMPLETE_TABLE, killed |-> FALSE, looked |-> 0,
        reads |-> <<>>, state |-> d.initialState, dfa |-> d]
  ELSE checkFrom(d, mem, inp, 0, d.initialState, <<>>)

\* checkString that keeps its current state in the struct's initialState.
checkStringMovesInitialState(d, mem, inp) ==
  LET r == IF d.incompleteCells # 0
           THEN [ret |-> ERROR_INCOMPLETE_TABLE, killed |-> FALSE, looked |-> 0,
                 reads |-> <<>>, state |-> d.initialState, dfa |-> d]
           ELSE checkFrom(d, mem, inp, 0, d.initialState, <<>>)
  IN  [r EXCEPT !.dfa = [d EXCEPT !.initialState = r.state]]

checkString(d, mem, inp) ==
  IF d.incompleteCells # 0
  THEN [ret |-> ERROR_INCOMPLETE_TABLE, killed |-> FALSE, looked |-> 0,
        reads |-> <<>>, state |-> d.initialState, dfa |-> d]
  ELSE checkFrom(d, mem, inp, 0, d.initialState, <<>>)

\* ------------------------------------------------------------------ actions
NoCall == [op |-> "none"]
\* Every malloc of createDFA returned memory.
NoFailure == [what |-> "none", row |-> 0, returned |-> "dfa"]
\* The callers of checkString, and a caller that is in no call.
Callers == {1, 2}
NotCalling == [pc |-> "idle", inp |-> <<>>, i |-> 0, state |-> 0, ret |-> 0,
               alone |-> 0, raced |-> FALSE, met |-> FALSE]
NoEvals == [t \in Callers |-> NotCalling]

Unwritten(nStates, nChars) ==
  [s \in 0 .. nStates - 1 |-> [k \in 0 .. nChars - 1 |-> <<>>]]

Init ==
  /\ \E shape \in Shapes :
       \E initState \in StateArgs(shape[1]), finStates \in FinalLists(shape[1]),
          junk \in {0, shape[1]} :
         LET nStates == shape[1]
             chars == shape[2]
         IN
         /\ dfa = createDFA(chars, nStates, initState, Len(finStates), finStates, junk)
         /\ written = Unwritten(nStates, Len(chars))
         /\ beyond \in {Unmapped, Mapped(junk)}
  /\ last = NoCall
  /\ outside = FALSE
  /\ crashed = FALSE
  /\ failed = NoFailure
  /\ evals = NoEvals

AddCall(initState, inp, finalState, killed) ==
  LET index == indexOf(dfa, inp)
  IN  [op |-> "addTransition", initState |-> initState, index |-> index,
       again |-> /\ index >= 0
                 /\ InTable(dfa, initState)
                 /\ written[initState][index] # <<>>,
       killed |-> killed]

\* addTransition that stays inside the table: an unknown character, or a row
\* of the table.
AddInside(initState, inp, finalState) ==
  LET index == indexOf(dfa, inp)
  IN  /\ ~crashed
      /\ index < 0 \/ InTable(dfa, initState)
      /\ dfa' = addTransition(dfa, initState, inp, finalState)
      /\ written' = IF index < 0 THEN written
                    ELSE [written EXCEPT ![initState][index] = Append(@, finalState)]
      /\ last' = AddCall(initState, inp, finalState, FALSE)
      /\ UNCHANGED <<beyond, outside, crashed, failed, evals>>

\* addTransition with a known character and a row outside the table: the
\* store goes through whatever lies beyond the row pointers.
AddOutside(initState, inp, finalState) ==
  /\ ~crashed
  /\ indexOf(dfa, inp) >= 0
  /\ ~InTable(dfa, initState)
  /\ outside' = TRUE
  /\ \/ /\ beyond.mapped
        /\ beyond' = Mapped(finalState)
        /\ dfa' = [dfa EXCEPT !.incompleteCells = @ - 1]
        /\ last' = AddCall(initState, inp, finalState, FALSE)
        /\ UNCHANGED <<written, crashed, failed, evals>>
     \/ /\ ~beyond.mapped
        /\ crashed' = TRUE
        /\ last' = AddCall(initState, inp, finalState, TRUE)
        /\ UNCHANGED <<dfa, beyond, written, failed, evals>>

AddTransition(initState, inp, finalState) ==
  \/ AddInside(initState, inp, finalState)
  \/ AddOutside(initState, inp, finalState)

CheckString(inp) ==
  LET r == checkString(dfa, beyond, inp)
  IN  /\ ~crashed
      /\ dfa' = r.dfa
      /\ last' = [op |-> "checkString", inp |-> inp, ret |-> r.ret,
                  killed |-> r.killed, looked |-> r.looked, reads |-> r.reads,
                  state |-> r.state]
      /\ outside' = (outside \/ \E j \in 1 .. Len(r.reads) : ~InTable(dfa, r.reads[j][1]))
      /\ crashed' = r.killed
      /\ UNCHANGED <<beyond, written, failed, evals>>

\* The characters callers pass: those of the alphabet and a foreign one.
InputChars == { dfa.characterSet[k] : k \in 0 .. dfa.characters - 1 } \cup {Foreign}
Inputs == StringsUpTo(MaxLen, InputChars)

\* The number of times incompleteCells has been decremented.
Decrements == dfa.states * dfa.characters - dfa.incompleteCells

Next ==
  \/ \E initState \in StateArgs(dfa.states), inp \in InputChars,
        finalState \in StateArgs(dfa.states) :
       /\ Decrements < MaxAdds
       /\ AddTransition(initState, inp, finalState)
  \/ \E inp \in Inputs : CheckString(inp)

Spec == Init /\ [][Next]_vars

\* ------------------------------------------ binary numbers divisible by 3
\* The automaton of the end-to-end scenario: three states, the remainders
\* modulo 3, over the digits 0 and 1, each transition registered once.
MaxBits == 4        \* binary inputs have at most MaxBits digits
Div3States == Cardinality({0, 1, 2})
Div3Chars == <<"0", "1">>
Digit(c) == IF c = "1" THEN 1 ELSE 0
Div3Delta(state, c) == (2 * state + Digit(c)) % 3
BinaryStrings == StringsUpTo(MaxBits, {"0", "1"})

InitDiv3 ==
  /\ \E junk \in 0 .. Div3States :
       /\ dfa = createDFA(Div3Chars, Div3States, 0, 1, <<0>>, junk)
       /\ beyond \in {Unmapped, Mapped(junk)}
  /\ written = Unwritten(Div3States, Len(Div3Chars))
  /\ last = NoCall
  /\ outside = FALSE
  /\ crashed = FALSE
  /\ failed = NoFailure
  /\ evals = NoEvals

\* One registration of the scenario: a transition not registered before.
RegisterOnce(state, c) ==
  /\ written[state][indexOf(dfa, c)] = <<>>
  /\ AddInside(state, c, Div3Delta(state, c))

NextDiv3 ==
  \/ \E state \in 0 .. Div3States - 1, c \in {"0", "1"} : RegisterOnce(state, c)
  \/ \E inp \in BinaryStrings : CheckString(inp)

SpecDiv3 == InitDiv3 /\ [][NextDiv3]_vars

\* ------------------------------------------- each cell registered once
\* The registration loop of main: every pair of a state and a character of
\* the alphabet is registered once, with the target the user gives; here in
\* any order.
OnceShapes == Shapes \cup { <<2, <<"a", "b">>>> }

InitOnce ==
  /\ \E shape \in OnceShapes :
       \E initState \in StateArgs(shape[1]), finStates \in FinalLists(shape[1]),
          junk \in {0, shape[1]} :
         /\ dfa = createDFA(shape[2], shape[1], initState, Len(finStates), finStates, junk)
         /\ written = Unwritten(shape[1], Len(shape[2]))
         /\ beyond \in {Unmapped, Mapped(junk)}
  /\ last = NoCall
  /\ outside = FALSE
  /\ crashed = FALSE
  /\ failed = NoFailure
  /\ evals = NoEvals

RegisterNew(state, k, finalState) ==
  /\ written[state][k] = <<>>
  /\ AddInside(state, dfa.characterSet[k], finalState)

NextOnce ==
  \E state \in 0 .. dfa.states - 1, k \in 0 .. dfa.characters - 1,
     finalState \in StateArgs(dfa.states) :
    RegisterNew(state, k, finalState)

SpecOnce == InitOnce /\ [][NextOnce]_vars

\* ------------------------------------------- registrations that repeat
\* A caller that passes only states and characters of the automaton, and may
\* register a pair more than once, as addTransition allows.
MaxRegistrations == 4   \* addTransition is called at most MaxRegistrations times

Register(state, k, finalState) ==
  AddInside(state, dfa.characterSet[k], finalState)

NextRepeat ==
  \/ \E state \in 0 .. dfa.states - 1, k \in 0 .. dfa.characters - 1,
        finalState \in 0 .. dfa.states - 1 :
       /\ Decrements < MaxRegistrations
       /\ Register(state, k, finalState)
  \/ \E inp \in Inputs : CheckString(inp)

SpecRepeat == Init /\ [][NextRepeat]_vars

\* ------------------------------------------------ a malloc that fails
\* createDFA calls malloc for the struct, the list of final states, the
\* character set, the array of row pointers and each row, in this order.
\* Here one of them returns NULL.  A store through a null pointer ends the
\* process.
Mallocs == {"dfa", "finalStates", "characterSet", "transitionTable", "row"}

\* How createDFA ends when the malloc `what` returns NULL: it returns NULL,
\* it is killed by a store through the null pointer, or it returns the struct.
createDFAReturns(chars, nStates, nFinStates, what) ==
  IF what = "dfa" THEN "NULL"
  ELSE IF what = "finalStates" /\ nFinStates > 0 THEN "killed"
  ELSE IF what = "characterSet" /\ Len(chars) > 0 THEN "killed"
  ELSE IF what = "transitionTable" /\ nStates > 0 THEN "killed"
  ELSE "dfa"

\* What the caller holds when createDFA gave it no struct.
NullDFA == createDFA(<<>>, 0, 0, 0, <<>>, 0)

InitAlloc ==
  /\ \E shape \in Shapes :
       \E initState \in StateArgs(shape[1]), finStates \in FinalLists(shape[1]),
          what \in Mallocs \cup {"none"}, row \in 0 .. shape[1] - 1 :
         LET returned == createDFAReturns(shape[2], shape[1], Len(finStates), what)
         IN
         /\ what # "row" => row = 0
         /\ what = "finalStates" => Len(finStates) > 0   \* malloc(0) may return NULL
         /\ failed = [what |-> what, row |-> row, returned |-> returned]
         /\ dfa = IF returned = "dfa"
                  THEN createDFA(shape[2], shape[1], initState, Len(finStates), finStates, 0)
                  ELSE NullDFA
         /\ written = Unwritten(dfa.states, dfa.characters)
         /\ crashed = (returned = "killed")
  /\ beyond = Unmapped
  /\ last = NoCall
  /\ outside = FALSE
  /\ evals = NoEvals

\* main's first addTransition when createDFA returned NULL: indexOf reads
\* dfa->characters.
RegisterInNull ==
  /\ ~crashed
  /\ failed.returned = "NULL"
  /\ crashed' = TRUE
  /\ last' = [op |-> "addTransition", initState |-> 0, index |-> -1,
              again |-> FALSE, killed |-> TRUE]
  /\ UNCHANGED <<dfa, beyond, written, outside, failed, evals>>

\* addTransition for a row whose malloc returned NULL.
RegisterInNullRow(state, k, finalState) ==
  /\ ~crashed
  /\ failed.what = "row"
  /\ state = failed.row
  /\ crashed' = TRUE
  /\ last' = AddCall(state, dfa.characterSet[k], finalState, TRUE)
  /\ UNCHANGED <<dfa, beyond, written, outside, failed, evals>>

RegisterInRow(state, k, finalState) ==
  /\ ~(failed.what = "row" /\ state = failed.row)
  /\ RegisterNew(state, k, finalState)

NextAlloc ==
  \/ RegisterInNull
  \/ \E state \in 0 .. dfa.states - 1, k \in 0 .. dfa.characters - 1,
        finalState \in StateArgs(dfa.states) :
       \/ RegisterInNullRow(state, k, finalState)
       \/ RegisterInRow(state, k, finalState)

SpecAlloc == InitAlloc /\ [][NextAlloc]_vars

\* ------------------------------------------- checkString, step by step
\* A call of checkString as the steps it takes: the completeness test, one
\* iteration of the loop over the input, one iteration of the loop over the
\* final states.  evals[t] holds the locals of caller t's call: pc where it
\* is, i the loop variable, state the current state.  alone, raced and met are
\* history: what the call would have returned had it run with no other step
\* in between, whether an addTransition ran during the call, whether another
\* caller took a step during the call.
Running(e) == e.pc \in {"loop", "final"}

\* The loop variable that is not advanced.
nextIndexStays(i) == i
\* ++i
nextIndex(i) == i + 1

\* The current state kept in one place for all callers.
currentStateShared(t) == evals[CHOOSE u \in Callers : \A v \in Callers : u <= v].state
\* The local variable state of caller t's call.
currentState(t) == evals[t].state

Returned(e, ret) ==
  [e EXCEPT !.pc = "done", !.ret = ret, !.inp = <<>>, !.i = 0, !.state = 0]

\* evals after caller t moved to e: every other call that is running has met
\* a step of another caller.
Step(t, e) ==
  [u \in Callers |->
     IF u = t THEN e
     ELSE IF Running(evals[u]) THEN [evals[u] EXCEPT !.met = TRUE]
     ELSE evals[u]]

\* Entry, the completeness test and the initialisation of state.
Begin(t, inp) ==
  /\ ~crashed
  /\ evals[t].pc = "idle"
  /\ LET e == [NotCalling EXCEPT !.inp = inp,
                                 !.alone = checkString(dfa, beyond, inp).ret]
     IN  evals' = Step(t, IF dfa.incompleteCells # 0
                          THEN Returned(e, ERROR_INCOMPLETE_TABLE)
                          ELSE [e EXCEPT !.pc = "loop", !.state = dfa.initialState])
  /\ UNCHANGED <<dfa, beyond, written, last, outside, crashed, failed>>

\* The loop over the input: its test and, if it passes, one iteration.
Loop(t) ==
  LET e == evals[t]
      index == indexOf(dfa, e.inp[e.i + 1])
      state == currentState(t)
  IN  /\ ~crashed
      /\ e.pc = "loop"
      /\ IF e.i >= Len(e.inp)
         THEN /\ evals' = Step(t, [e EXCEPT !.pc = "final", !.i = 0])
              /\ UNCHANGED <<outside, crashed>>
         ELSE IF index < 0
         THEN /\ evals' = Step(t, Returned(e, ERROR_INVALID_CHARACTER_IN_INPUT))
              /\ UNCHANGED <<outside, crashed>>
         ELSE IF InTable(dfa, state)
         THEN /\ evals' = Step(t, [e EXCEPT !.state = dfa.transitionTable[state][index],
                                            !.i = nextIndex(e.i)])
              /\ UNCHANGED <<outside, crashed>>
         ELSE IF beyond.mapped
         THEN /\ evals' = Step(t, [e EXCEPT !.state = beyond.value,
                                            !.i = nextIndex(e.i)])
              /\ outside' = TRUE
              /\ UNCHANGED crashed
         ELSE /\ evals' = Step(t, [e EXCEPT !.pc = "killed"])
              /\ outside' = TRUE
              /\ crashed' = TRUE
      /\ UNCHANGED <<dfa, beyond, written, last, failed>>

\* The loop over the final states: its test and, if it passes, one iteration;
\* then the return.
Final(t) ==
  LET e == evals[t]
  IN  /\ ~crashed
      /\ e.pc = "final"
      /\ evals' = Step(t, IF e.i < dfa.numberOfFinalStates
                          THEN IF currentState(t) = dfa.finalStates[e.i]
                               THEN Returned(e, 1)
                               ELSE [e EXCEPT !.i = nextIndex(e.i)]
                          ELSE Returned(e, 0))
      /\ UNCHANGED <<dfa, beyond, written, last, outside, crashed, failed>>

\* One caller, as in main: the addTransition calls of Spec, then a call of
\* checkString taken step by step.
NextSteps ==
  \/ \E initState \in StateArgs(dfa.states), inp \in InputChars,
        finalState \in StateArgs(dfa.states) :
       /\ Decrements < MaxAdds
       /\ evals[1].pc = "idle"
       /\ AddTransition(initState, inp, finalState)
  \/ \E inp \in Inputs : Begin(1, inp)
  \/ Loop(1)
  \/ Final(1)

SpecSteps == Init /\ [][NextSteps]_vars

\* --------------------------------------------- the automaton, as registered
\* These definitions read the history of registrations, not the table.

Cells == { <<s, k>> : s \in 0 .. dfa.states - 1, k \in 0 .. dfa.characters - 1 }
EverSet(cell) == written[cell[1]][cell[2]] # <<>>
AllCellsSet == \A cell \in Cells : EverSet(cell)
\* The target most recently registered for a cell that has been set.
Registered(cell) == written[cell[1]][cell[2]][Len(written[cell[1]][cell[2]])]
InAlphabet(c) == \E k \in 0 .. dfa.characters - 1 : dfa.characterSet[k] = c
Column(c) == CHOOSE k \in 0 .. dfa.characters - 1 : dfa.characterSet[k] = c
Accepting(q) == \E k \in 0 .. dfa.numberOfFinalStates - 1 : dfa.finalStates[k] = q
ValidString(w) == \A j \in 1 .. Len(w) : InAlphabet(w[j])
\* The position of the first character of w that is not in the alphabet.
FirstInvalid(w) ==
  CHOOSE j \in 1 .. Len(w) : ~InAlphabet(w[j]) /\ \A h \in 1 .. j - 1 : InAlphabet(w[h])
\* The state reached from q along w by the registered transitions.
RECURSIVE DeltaStar(_, _)
DeltaStar(q, w) ==
  IF w = <<>> THEN q ELSE DeltaStar(Registered(<<q, Column(Head(w))>>), Tail(w))
\* Every state identifier the automaton was given is one of its states.
WellFormed ==
  /\ InTable(dfa, dfa.initialState)
  /\ \A cell \in Cells : EverSet(cell) => InTable(dfa, Registered(cell))
Accepted == 1
Rejected == 0
Checked == last.op = "checkString"
\* The state checkString was in after its j-th lookup.
StateAfter(j) == IF j < Len(last.reads) THEN last.reads[j + 1][1] ELSE last.state

\* ------------------------------------------------ callers side by side
\* Two callers share one automaton whose state identifiers are all in range:
\* main's registration loop fills the table, the callers' checkString calls
\* interleave step by step, and addTransition may run again while they do.
InitConc ==
  /\ Init
  /\ InTable(dfa, dfa.initialState)
  /\ ~beyond.mapped
  /\ \A cell \in Cells : InTable(dfa, dfa.transitionTable[cell[1]][cell[2]])

\* addTransition on the complete table, whatever the callers are doing.  It
\* leaves the counter at -1, and every call that begins later returns
\* ERROR_INCOMPLETE_TABLE whatever else is written; one such call is modelled.
Overwrite(state, k, finalState) ==
  /\ ~crashed
  /\ AllCellsSet
  /\ dfa.incompleteCells = 0
  /\ dfa' = addTransition(dfa, state, dfa.characterSet[k], finalState)
  /\ written' = [written EXCEPT ![state][k] = Append(@, finalState)]
  /\ last' = AddCall(state, dfa.characterSet[k], finalState, FALSE)
  /\ evals' = [u \in Callers |->
                 IF Running(evals[u]) THEN [evals[u] EXCEPT !.raced = TRUE]
                 ELSE evals[u]]
  /\ UNCHANGED <<beyond, outside, crashed, failed>>

NextConc ==
  \/ \E state \in 0 .. dfa.states - 1, k \in 0 .. dfa.characters - 1,
        finalState \in 0 .. dfa.states - 1 :
       \/ RegisterNew(state, k, finalState)
       \/ Overwrite(state, k, finalState)
  \/ \E t \in Callers :
       \/ \E inp \in Inputs : Begin(t, inp)
       \/ Loop(t)
       \/ Final(t)

SpecConc == InitConc /\ [][NextConc]_vars

\* ------------------------------------------------------------------- claims

\* C1: on an automaton whose every cell has been set with an in-range target
\* (and whose initial state is a state), and for an input of alphabet symbols
\* only, CheckString returns Accepted exactly when the registered transitions
\* lead from the initial state to an accepting state, and Rejected otherwise.
C1_FoldDecidesAcceptance ==
  (/\ Checked
   /\ ~outside
   /\ AllCellsSet
   /\ WellFormed
   /\ ValidString(last.inp))
  => /\ ~last.killed
     /\ last.ret = IF Accepting(DeltaStar(dfa.initialState, last.inp))
                   THEN Accepted ELSE Rejected

\* C2: after any sequence of addTransition calls (with rows of the table),
\* CheckString returns IncompleteTable if and only if some cell has never
\* been set.
C2_IncompleteIffSomeCellNeverSet ==
  (Checked /\ ~outside)
  => (last.ret = ERROR_INCOMPLETE_TABLE <=> ~AllCellsSet)

\* C3: an addTransition with an alphabet symbol on a cell that is already set
\* leaves the counter of unset cells unchanged.
C3_OverwriteKeepsCounter ==
  [][\A initState \in StateArgs(dfa.states), inp \in InputChars,
        finalState \in StateArgs(dfa.states) :
       (/\ AddInside(initState, inp, finalState)
        /\ indexOf(dfa, inp) >= 0
        /\ EverSet(<<initState, indexOf(dfa, inp)>>))
       => dfa'.incompleteCells = dfa.incompleteCells]_vars

\* C4: a cell registered more than once holds the most recently registered
\* target, and a CheckString that evaluates its input moves to that target
\* whenever it looks the cell up.
C4_LastWriteWins ==
  /\ \A cell \in Cells :
       Len(written[cell[1]][cell[2]]) > 1
       => dfa.transitionTable[cell[1]][cell[2]] = Registered(cell)
  /\ Checked =>
       \A j \in 1 .. Len(last.reads) :
         (/\ last.reads[j] \in Cells
          /\ Len(written[last.reads[j][1]][last.reads[j][2]]) > 1)
         => StateAfter(j) = Registered(last.reads[j])

\* A CheckString that evaluated its input through a cell registered twice
\* with different targets.
C4_Witness ==
  /\ Checked
  /\ last.ret \in {Accepted, Rejected}
  /\ \E j \in 1 .. Len(last.reads) :
       /\ last.reads[j] \in Cells
       /\ Len(written[last.reads[j][1]][last.reads[j][2]]) > 1
       /\ written[last.reads[j][1]][last.reads[j][2]][1] # Registered(last.reads[j])

\* C5: while the counter of unset cells is nonzero, CheckString returns
\* IncompleteTable for every input, having examined no input character and
\* read no table cell.
C5_IncompleteTableFirst ==
  (Checked /\ dfa.incompleteCells # 0)
  => /\ last.ret = ERROR_INCOMPLETE_TABLE
     /\ last.looked = 0
     /\ last.reads = <<>>
     /\ ~last.killed

\* IncompleteTable returned for an input that also holds a foreign character.
C5_Witness ==
  /\ Checked
  /\ dfa.incompleteCells # 0
  /\ Len(last.inp) > 1
  /\ ~ValidString(last.inp)
  /\ last.ret = ERROR_INCOMPLETE_TABLE

C7_CheckStringIsPure ==
  [][(last'.op = "checkString" /\ CheckString(last'.inp))
     => /\ dfa' = dfa
        /\ beyond' = beyond
        /\ last'.ret = checkString(dfa', beyond', last'.inp).ret
        /\ Checked => checkString(dfa', beyond', last.inp).ret = last.ret]_vars

\* A CheckString that evaluated an input of two characters and accepted or
\* rejected it.
C7_Witness ==
  /\ Checked
  /\ Len(last.reads) > 1
  /\ last.ret \in {Accepted, Rejected}
  /\ ~last.killed

\* C8: on an automaton whose every cell has been set, CheckString of the
\* empty string returns Accepted if the initial state is a final state and
\* Rejected if it is not.
C8_EmptyString ==
  (Checked /\ ~outside /\ AllCellsSet /\ last.inp = <<>>)
  => last.ret = IF Accepting(dfa.initialState) THEN Accepted ELSE Rejected

\* C10: addTransition with a character that is not in the alphabet changes
\* nothing, whatever its state arguments are.
C10_UnknownSymbolNoOp ==
  [][last'.op = "addTransition" =>
       \A inp \in InputChars :
         ~InAlphabet(inp) =>
           \A initState \in StateArgs(dfa.states), finalState \in StateArgs(dfa.states) :
             AddTransition(initState, inp, finalState)
             => /\ dfa' = dfa
                /\ beyond' = beyond
                /\ written' = written
                /\ ~crashed'
                /\ ~last'.killed]_vars

\* An addTransition with a foreign character and a row outside the table.
C10_Witness ==
  /\ last.op = "addTransition"
  /\ last.index < 0
  /\ ~InTable(dfa, last.initState)
  /\ ~crashed

\* The number a string of binary digits denotes.
RECURSIVE BinValue(_)
BinValue(w) ==
  IF w = <<>> THEN 0 ELSE 2 * BinValue(SubSeq(w, 1, Len(w) - 1)) + Digit(w[Len(w)])

\* C9: with the six transitions of the scenario registered once each,
\* CheckString returns Accepted for a string of binary digits when the number
\* it denotes is divisible by 3 and Rejected when it is not.
C9_DivisibleByThree ==
  (Checked /\ AllCellsSet /\ Len(last.inp) > 0)
  => last.ret = IF BinValue(last.inp) % 3 = 0 THEN Accepted ELSE Rejected

\* "110" accepted by the scenario's automaton.
C9_Witness ==
  /\ Checked
  /\ AllCellsSet
  /\ last.inp = <<"1", "1", "0">>
  /\ last.ret = Accepted

\* Every addTransition so far stored into the table: each decrement of the
\* counter has its entry in the history of a cell.
RECURSIVE SumLen(_)
SumLen(cells) ==
  IF cells = {} THEN 0
  ELSE LET cell == CHOOSE c \in cells : TRUE
       IN  Len(written[cell[1]][cell[2]]) + SumLen(cells \ {cell})
AllStoresInTable == Decrements = SumLen(Cells)
\* Every target ever registered is a state.
AllTargetsInRange ==
  \A cell \in Cells :
    \A j \in 1 .. Len(written[cell[1]][cell[2]]) : InTable(dfa, written[cell[1]][cell[2]][j])

\* C11: a state identifier outside [0, states) given to createDFA or to
\* addTransition is rejected: the initial state is a state, no target outside
\* the range is ever stored in the table, and no access outside the table is
\* ever made.
C11_StateIdentifiersValidated ==
  /\ InTable(dfa, dfa.initialState)
  /\ AllTargetsInRange
  /\ \A cell \in Cells : EverSet(cell) => InTable(dfa, dfa.transitionTable[cell[1]][cell[2]])
  /\ ~outside

\* C12: while no cell has been set since createDFA, the counter of unset
\* cells is states * characters, and CheckString returns IncompleteTable for
\* every input.
C12_FreshInstanceIsIncomplete ==
  ((\A cell \in Cells : ~EverSet(cell)) /\ ~outside)
  => /\ dfa.incompleteCells = dfa.states * dfa.characters
     /\ dfa.incompleteCells = Cardinality(Cells)
     /\ Checked => last.ret = ERROR_INCOMPLETE_TABLE

\* CheckString of an alphabet string on an instance with two cells, none set.
C12_Witness ==
  /\ \A cell \in Cells : ~EverSet(cell)
  /\ ~outside
  /\ Cardinality(Cells) > 1
  /\ Checked
  /\ Len(last.inp) > 0
  /\ ValidString(last.inp)
  /\ last.ret = ERROR_INCOMPLETE_TABLE

\* C14: every cell CheckString looks up is a cell of the table that an
\* earlier addTransition has written.
C14_ReadsOnlySetCells ==
  (Checked /\ AllStoresInTable)
  => \A j \in 1 .. Len(last.reads) :
       last.reads[j] \in Cells => EverSet(last.reads[j])

\* C19: the counter of unset cells stays between 0 and states * characters.
C19_CounterInRange ==
  /\ 0 <= dfa.incompleteCells
  /\ dfa.incompleteCells <= dfa.states * dfa.characters

\* C20: when the initial state is a state and every addTransition so far had
\* a row of the table and a target in range, every lookup of a CheckString
\* that passes the completeness test is inside the table.
C20_LookupsInBounds ==
  (/\ Checked
   /\ InTable(dfa, dfa.initialState)
   /\ AllStoresInTable
   /\ AllTargetsInRange)
  => \A j \in 1 .. Len(last.reads) :
       /\ InTable(dfa, last.reads[j][1])
       /\ last.reads[j][2] \in 0 .. dfa.characters - 1

\* C15: while every pair of a state and a character is registered at most
\* once, the counter is the number of cells not yet registered, so it is zero
\* after the last registration and nonzero before; and each registered cell
\* holds the target it was given, so the table and the counter depend on
\* which pairs were registered with which targets, not on the order.
C15_OnceEachInAnyOrder ==
  /\ dfa.incompleteCells = Cardinality({ cell \in Cells : ~EverSet(cell) })
  /\ dfa.incompleteCells = 0 <=> AllCellsSet
  /\ \A cell \in Cells :
       EverSet(cell) => dfa.transitionTable[cell[1]][cell[2]] = Registered(cell)

\* A table of four cells, all registered, the last one registered in the
\* first row: not the row-major order of main.
C15_Witness ==
  /\ Cardinality(Cells) = 4
  /\ AllCellsSet
  /\ dfa.incompleteCells = 0
  /\ last.op = "addTransition"
  /\ last.initState = 0
  /\ last.index = 0

\* C13: from a state where CheckString returns IncompleteTable and one cell
\* has never been set, registering that cell once with a target in range
\* leads to a state where CheckString returns Accepted or Rejected for every
\* string of alphabet characters.
C13_IncompleteTableRecoverable ==
  [][(/\ last'.op = "addTransition"
      /\ dfa.incompleteCells # 0
      /\ Cardinality({ cell \in Cells : ~EverSet(cell) }) = 1
      /\ AllCellsSet'
      /\ ~outside
      /\ InTable(dfa, dfa.initialState)
      /\ AllTargetsInRange')
     => \A w \in Inputs :
          ValidString(w) => checkString(dfa', beyond', w).ret \in {Accepted, Rejected}]_vars

\* C18: when a malloc of createDFA returns NULL, createDFA returns NULL to
\* report it, and neither createDFA nor a later call stores through the null
\* pointer.
C18_AllocationFailureReported ==
  failed.what # "none" => (failed.returned = "NULL" /\ ~crashed)

\* The locals of a call, and a bound on the steps it still takes: the input
\* characters not yet examined, then the final states not yet compared.
Locals(e) == <<e.pc, e.i, e.state, e.ret>>
Remaining(e) ==
  IF e.pc = "loop" THEN (Len(e.inp) - e.i) + dfa.numberOfFinalStates + 2
  ELSE IF e.pc = "final" THEN (dfa.numberOfFinalStates - e.i) + 1
  ELSE 0

\* C17: every call of checkString ends.  A call that has not returned can
\* always take its next step; each step brings it nearer to its return: a
\* lookup moves on to the next input character, at most one per character,
\* and the search of the final states moves on to the next entry; a call that
\* returns gives one of the four outcomes.
C17_CheckStringTerminates ==
  /\ [](\A t \in Callers :
          LET e == evals[t]
          IN  /\ e.pc = "loop" => e.i \in 0 .. Len(e.inp)
              /\ e.pc = "final" => e.i \in 0 .. dfa.numberOfFinalStates
              /\ e.pc = "done" => e.ret \in {Accepted, Rejected,
                                             ERROR_INVALID_CHARACTER_IN_INPUT,
                                             ERROR_INCOMPLETE_TABLE}
              /\ (Running(e) /\ ~crashed) => ENABLED (Loop(t) \/ Final(t)))
  /\ [][\A t \in Callers :
          (Running(evals[t]) /\ Locals(evals'[t]) # Locals(evals[t]))
          => /\ Remaining(evals'[t]) < Remaining(evals[t])
             /\ (evals[t].pc = "loop" /\ evals'[t].pc = "loop")
                => evals'[t].i = evals[t].i + 1]_vars

\* A call on an input of two characters or more that went through the loop
\* and is at the second entry of the list of final states.
C17_Witness ==
  /\ evals[1].pc = "final"
  /\ evals[1].i = 1
  /\ Len(evals[1].inp) > 1
  /\ ValidString(evals[1].inp)
  /\ dfa.numberOfFinalStates > 1
  /\ dfa.finalStates[0] # dfa.finalStates[1]
  /\ dfa.finalStates[1] = evals[1].state

\* C16: a call of checkString during which no addTransition ran returns what
\* it would have returned alone, however its steps interleave with those of
\* another caller; so an outcome that differs from the sequential ones comes
\* only from a call that an addTransition ran into.
C16_InterleavedCallsAgree ==
  \A t \in Callers :
    (evals[t].pc = "done" /\ ~evals[t].raced) => evals[t].ret = evals[t].alone

\* Both callers have returned, each met steps of the other during its call,
\* no addTransition ran meanwhile, and one was accepted and the other not.
C16_Witness ==
  /\ \A t \in Callers :
       /\ evals[t].pc = "done"
       /\ evals[t].met
       /\ ~evals[t].raced
  /\ evals[1].ret = Accepted
  /\ evals[2].ret = Rejected

====
